---- MODULE Spec2Model ----
(***************************************************************************)
(* The annotation draft state machine of the image labeler's control menu  *)
(* (ControlMenu.tsx): the draft, the required-field validation, the        *)
(* region finish/clear transitions, the drawing-mode and flood controls,   *)
(* and the keyboard shortcut router.                                       *)
(***************************************************************************)
EXTENDS Integers, Sequences, FiniteSets

VARIABLES
    config,     \* props.config: [image, regions], each a sequence of label definitions
    callbacks,  \* props.callbacks: the set of callback names that are provided
    disabled,   \* props.disabled
    draft,      \* props.draft, as last handed to setDraft
    state,      \* the component state: [configEditorOpen, index]
    pending,    \* the simulated clicks in flight, oldest first
    prev,       \* the draft the last input event was handled on
    ev          \* the last input event and what its handler did

vars == <<config, callbacks, disabled, draft, state, pending, prev, ev>>

----------------------------------------------------------------------------
(* Bounds of the model. *)

\* longest label-definition list per level
MaxDefs == 2
\* most regions a draft holds (committed lists and the active slot together)
MaxRegions == 3
\* most simulated clicks in flight at once
MaxInFlight == 1

----------------------------------------------------------------------------
(* Data. *)

Names == {"quality", "kind"}
Modes == {"boxes", "polygons", "masks"}

\* RangeSlider min / max of the flood threshold and of the cursor size
ThresholdMin == 0
ThresholdMax == 20
RadiusMin == 1
RadiusMax == 50
ThresholdValues == {ThresholdMin, 10, ThresholdMax}
RadiusValues == {RadiusMin, RadiusMax}

\* a label definition, as far as the control menu reads it
Defs == [name : Names, required : BOOLEAN]

RECURSIVE SeqsUpTo(_, _)
SeqsUpTo(S, n) ==
    IF n = 0 THEN {<<>>}
    ELSE LET shorter == SeqsUpTo(S, n - 1)
         IN  shorter \cup {Append(s, x) : s \in {t \in shorter : Len(t) = n - 1}, x \in S}

\* a label assignment: label-type name -> array of selected option names
EmptyLabels == [n \in {} |-> <<>>]
LabelValues == {<<>>, <<"good">>}
Assignments == UNION {[D -> LabelValues] : D \in SUBSET Names}

\* labels[name] || []
Selected(labels, name) == IF name \in DOMAIN labels THEN labels[name] ELSE <<>>

NewRegion == [labels |-> EmptyLabels, readonly |-> FALSE]

\* useState({configEditorOpen: false, index: null}); index null is <<>>
ClosedEditor == [configEditorOpen |-> FALSE, index |-> <<>>]

NoEvent ==
    [kind |-> "init", key |-> "", mods |-> {}, target |-> "", toast |-> "",
     invoked |-> <<>>, prevented |-> FALSE, thrown |-> FALSE, arg |-> <<>>]

----------------------------------------------------------------------------
(* computedState and the validation gate. *)

active == draft.drawing.active
hasActive == active # <<>>
activeRegion == active[1].region

\* computedState.level
level == IF hasActive THEN "regions" ELSE "image"

\* computedState.activeConfig
activeConfig == config[level]

\* computedState.allowRegionSelection
allowRegion == TRUE
allowRegionSelection == Len(config.regions) > 0 /\ allowRegion

\* the label panel disabled by the disabled prop alone
disableLabelPanelByProp == disabled

\* computedState.disableLabelPanel
disableLabelPanel == disabled \/ (hasActive /\ activeRegion.readonly = TRUE)

\* the drawing-mode panel disabled by the disabled prop alone
modePanelDisabledByProp == disabled

\* the disabled prop of the drawing-mode panel
modePanelDisabled == hasActive \/ disabled

\* computedState.labels
labels == IF hasActive THEN activeRegion.labels ELSE draft.labels.image

\* the gate evaluated on the image-level labels whatever the state
requiredFieldsFilledOnImage ==
    \A i \in 1..Len(activeConfig) :
        ~activeConfig[i].required
        \/ Len(Selected(draft.labels.image, activeConfig[i].name)) > 0

requiredFieldsFilled ==
    IF hasActive
    THEN \A i \in 1..Len(activeConfig) :
            ~activeConfig[i].required
            \/ Len(Selected(activeRegion.labels, activeConfig[i].name)) > 0
    ELSE \A i \in 1..Len(activeConfig) :
            ~activeConfig[i].required
            \/ Len(Selected(draft.labels.image, activeConfig[i].name)) > 0

----------------------------------------------------------------------------
(* The draft transitions of the control menu. *)

\* finishRegion keeping the region whatever save is
finishRegionKeeps(save) ==
    [draft EXCEPT
        !.dirty = TRUE,
        !.labels[draft.drawing.mode] = <<activeRegion>> \o @,
        !.drawing.active = <<>>]

\* finishRegion putting the region behind the committed ones
finishRegionAppends(save) ==
    [draft EXCEPT
        !.dirty = TRUE,
        !.labels[draft.drawing.mode] = @ \o (IF save THEN <<activeRegion>> ELSE <<>>),
        !.drawing.active = <<>>]

\* finishRegion dropping a readonly region
finishRegionSkipsReadonly(save) ==
    [draft EXCEPT
        !.dirty = TRUE,
        !.labels[draft.drawing.mode] =
            (IF save /\ ~activeRegion.readonly THEN <<activeRegion>> ELSE <<>>) \o @,
        !.drawing.active = <<>>]

\* the draft finishRegion(save) hands to setDraft (a region is active)
finishRegion(save) ==
    [draft EXCEPT
        !.dirty = TRUE,
        !.labels[draft.drawing.mode] = (IF save THEN <<activeRegion>> ELSE <<>>) \o @,
        !.drawing.active = <<>>]

\* the draft setLabels(current) hands to setDraft
\* a call of finishRegion that returns quietly when no region is active
finishRegionCallQuiet(save) ==
    IF ~hasActive
    THEN [thrown |-> FALSE, draft |-> draft]
    ELSE [thrown |-> FALSE, draft |-> finishRegion(save)]

\* a call of finishRegion: it throws before setDraft when no region is active;
\* [thrown, draft]
finishRegionCall(save) ==
    IF ~hasActive
    THEN [thrown |-> TRUE, draft |-> draft]
    ELSE [thrown |-> FALSE, draft |-> finishRegion(save)]

\* set-labels that always writes the image-level labels
setLabelsOnImage(current) ==
    [draft EXCEPT !.dirty = TRUE, !.labels.image = current]

setLabels(current) ==
    [draft EXCEPT
        !.dirty = TRUE,
        !.labels = IF hasActive THEN @ ELSE [@ EXCEPT !.image = current],
        !.drawing = IF hasActive
                    THEN [@ EXCEPT !.active = <<[@[1] EXCEPT !.region.labels = current]>>]
                    ELSE @]

\* a mode switch that starts the new mode with the mask controls at their defaults
setModeResets(mode) ==
    [draft EXCEPT !.drawing.mode = mode, !.drawing.flood = FALSE,
                  !.drawing.threshold = ThresholdMin]

\* a mode switch that starts a clean draft
setModeClean(mode) == [draft EXCEPT !.drawing.mode = mode, !.dirty = FALSE]

\* the drafts of the drawing-mode panel and of the mask controls
setMode(mode) == [draft EXCEPT !.drawing.mode = mode]
setFlood(flood) ==
    [draft EXCEPT !.drawing = IF draft.drawing.mode = "masks"
                              THEN [@ EXCEPT !.flood = flood] ELSE @]
setThreshold(value) == [draft EXCEPT !.drawing.threshold = value]
setRadius(value) == [draft EXCEPT !.drawing.radius = value]

----------------------------------------------------------------------------
(* The buttons of the control menu: which are rendered (their ref is set), *)
(* which are disabled, and what a click on one does.                       *)

Buttons ==
    {"next", "prev", "save", "finishRegion", "clearRegion", "delete", "ignore",
     "selectAll", "selectNone", "undoRegion", "undo"}

showNavigation == FALSE

\* the Save button shown while a region is active as well
renderedSaveAlways(b) ==
    CASE b \in {"finishRegion", "clearRegion"} -> hasActive
      [] b = "undoRegion" -> hasActive /\ "onUndo" \in callbacks
      [] b = "selectAll"  -> ~hasActive /\ "onSelectAll" \in callbacks
      [] b = "selectNone" -> ~hasActive /\ "onSelectNone" \in callbacks
      [] b = "save"       -> TRUE
      [] b = "ignore"     -> ~hasActive /\ ("onIgnore" \in callbacks \/ "onUnignore" \in callbacks)
      [] b = "delete"     -> ~hasActive /\ "onDelete" \in callbacks
      [] b = "reset"      -> ~hasActive /\ "onReset" \in callbacks /\ draft.dirty
      [] b = "undo"       -> ~hasActive /\ "onUndo" \in callbacks
      [] b \in {"prev", "next"} ->
            ~hasActive /\ ("onPrev" \in callbacks \/ "onNext" \in callbacks \/ showNavigation)
      [] OTHER -> FALSE

rendered(b) ==
    CASE b \in {"finishRegion", "clearRegion"} -> hasActive
      [] b = "undoRegion" -> hasActive /\ "onUndo" \in callbacks
      [] b = "selectAll"  -> ~hasActive /\ "onSelectAll" \in callbacks
      [] b = "selectNone" -> ~hasActive /\ "onSelectNone" \in callbacks
      [] b = "save"       -> ~hasActive
      [] b = "ignore"     -> ~hasActive /\ ("onIgnore" \in callbacks \/ "onUnignore" \in callbacks)
      [] b = "delete"     -> ~hasActive /\ "onDelete" \in callbacks
      [] b = "reset"      -> ~hasActive /\ "onReset" \in callbacks /\ draft.dirty
      [] b = "undo"       -> ~hasActive /\ "onUndo" \in callbacks
      [] b \in {"prev", "next"} ->
            ~hasActive /\ ("onPrev" \in callbacks \/ "onNext" \in callbacks \/ showNavigation)
      [] OTHER -> FALSE

\* the Save button disabled on a dirty draft, like Previous and Next
buttonDisabledDirty(b) ==
    CASE b = "finishRegion" -> ~requiredFieldsFilled
      [] b = "clearRegion"  -> activeRegion.readonly
      [] b = "save"         -> "onSave" \notin callbacks \/ disabled \/ ~requiredFieldsFilled
                               \/ draft.dirty
      [] b = "prev"         -> "onPrev" \notin callbacks \/ draft.dirty
      [] b = "next"         -> "onNext" \notin callbacks \/ draft.dirty
      [] OTHER              -> disabled

\* the Finish button never disabled
buttonDisabledUngated(b) ==
    CASE b = "finishRegion" -> FALSE
      [] b = "clearRegion"  -> activeRegion.readonly
      [] b = "save"         -> "onSave" \notin callbacks \/ disabled \/ ~requiredFieldsFilled
      [] b = "prev"         -> "onPrev" \notin callbacks \/ draft.dirty
      [] b = "next"         -> "onNext" \notin callbacks \/ draft.dirty
      [] OTHER              -> disabled

\* Previous and Next enabled on a dirty draft
buttonDisabledNavDirty(b) ==
    CASE b = "finishRegion" -> ~requiredFieldsFilled
      [] b = "clearRegion"  -> activeRegion.readonly
      [] b = "save"         -> "onSave" \notin callbacks \/ disabled \/ ~requiredFieldsFilled
      [] b = "prev"         -> "onPrev" \notin callbacks
      [] b = "next"         -> "onNext" \notin callbacks
      [] OTHER              -> disabled

\* the disabled prop of a rendered button
buttonDisabled(b) ==
    CASE b = "finishRegion" -> ~requiredFieldsFilled
      [] b = "clearRegion"  -> activeRegion.readonly
      [] b = "save"         -> "onSave" \notin callbacks \/ disabled \/ ~requiredFieldsFilled
      [] b = "prev"         -> "onPrev" \notin callbacks \/ draft.dirty
      [] b = "next"         -> "onNext" \notin callbacks \/ draft.dirty
      [] OTHER              -> disabled

\* the callback a rendered button's onClick is
onClick(b) ==
    CASE b = "undoRegion" -> "onUndo"
      [] b = "selectAll"  -> "onSelectAll"
      [] b = "selectNone" -> "onSelectNone"
      [] b = "save"       -> "onSave"
      [] b = "ignore"     -> IF "onIgnore" \in callbacks THEN "onIgnore" ELSE "onUnignore"
      [] b = "delete"     -> "onDelete"
      [] b = "reset"      -> "onReset"
      [] b = "undo"       -> "onUndo"
      [] b = "prev"       -> "onPrev"
      [] b = "next"       -> "onNext"

\* a click that reaches the handler of a disabled button
clickIgnoresDisabled(b) ==
    IF ~rendered(b)
    THEN [draft |-> draft, invoked |-> <<>>]
    ELSE CASE b = "finishRegion" -> [draft |-> finishRegion(TRUE), invoked |-> <<>>]
           [] b = "clearRegion"  -> [draft |-> finishRegion(FALSE), invoked |-> <<>>]
           [] OTHER              -> [draft |-> draft, invoked |-> <<onClick(b)>>]

\* a click on button b: the draft it hands to setDraft and the callbacks it invokes;
\* a button that is not rendered or is disabled does nothing
click(b) ==
    IF ~rendered(b) \/ buttonDisabled(b)
    THEN [draft |-> draft, invoked |-> <<>>]
    ELSE CASE b = "finishRegion" -> [draft |-> finishRegion(TRUE), invoked |-> <<>>]
           [] b = "clearRegion"  -> [draft |-> finishRegion(FALSE), invoked |-> <<>>]
           [] OTHER              -> [draft |-> draft, invoked |-> <<onClick(b)>>]

\* simulateClick(refs[target].current): the button is activated as by a pointer click
simulateClick(b) == click(b)

----------------------------------------------------------------------------
(* The keyboard shortcut router. *)

Keys == {"A", "a", "z", "ArrowRight", "ArrowLeft", "Enter", "Backspace", "Delete", "x"}
MappedKeys == Keys \ {"x"}
ModKeys == {"alt", "ctrl", "shift", "meta"}

ToastNext == "Please save or reset your changes before advancing to next item."
ToastPrev == "Please save or reset your changes before returning to previous item."
ToastRequired == "Please fill in all required fields."

\* the handler returns before it resolves anything
keyReturns(key, mods) == "alt" \in mods \/ key \notin MappedKeys

\* the switch statement with the Enter and Backspace/Delete cases not reading the
\* active region
switchTargetIdle(key, mods) ==
    CASE key = "A" -> IF "ctrl" \in mods /\ "shift" \in mods THEN "selectNone" ELSE ""
      [] key = "a" -> IF "ctrl" \in mods /\ "shift" \notin mods THEN "selectAll" ELSE ""
      [] key = "z" -> IF ("meta" \in mods) # ("ctrl" \in mods)
                      THEN (IF hasActive THEN "undoRegion" ELSE "undo")
                      ELSE ""
      [] key = "ArrowRight" -> IF "ctrl" \in mods \/ "shift" \in mods THEN "" ELSE "next"
      [] key = "ArrowLeft"  -> "prev"
      [] key = "Enter" -> IF "ctrl" \in mods \/ "shift" \in mods THEN "" ELSE "save"
      [] key \in {"Backspace", "Delete"} ->
            IF "ctrl" \in mods \/ "shift" \in mods THEN "" ELSE "delete"

\* the target the switch statement assigns, before the dirty check of the arrow keys
switchTarget(key, mods) ==
    CASE key = "A" -> IF "ctrl" \in mods /\ "shift" \in mods THEN "selectNone" ELSE ""
      [] key = "a" -> IF "ctrl" \in mods /\ "shift" \notin mods THEN "selectAll" ELSE ""
      [] key = "z" -> IF ("meta" \in mods) # ("ctrl" \in mods)
                      THEN (IF hasActive THEN "undoRegion" ELSE "undo")
                      ELSE ""
      [] key = "ArrowRight" -> IF "ctrl" \in mods \/ "shift" \in mods THEN "" ELSE "next"
      [] key = "ArrowLeft"  -> "prev"
      [] key = "Enter" ->
            IF "ctrl" \in mods \/ "shift" \in mods THEN ""
            ELSE IF hasActive THEN "finishRegion" ELSE "save"
      [] key \in {"Backspace", "Delete"} ->
            IF "ctrl" \in mods \/ "shift" \in mods THEN ""
            ELSE IF hasActive THEN "clearRegion" ELSE "delete"

\* the toast of the arrow keys on a dirty draft
navToast(key, mods) ==
    IF key \in {"ArrowRight", "ArrowLeft"} /\ draft.dirty /\ switchTarget(key, mods) # ""
    THEN (IF key = "ArrowRight" THEN ToastNext ELSE ToastPrev)
    ELSE ""

\* the target when the switch statement is left
keyTarget(key, mods) ==
    IF navToast(key, mods) # "" THEN "" ELSE switchTarget(key, mods)

\* the whole handler: [draft, target, toast, invoked, prevented]
handleKey(key, mods) ==
    LET first == IF "onKeyboardEvent" \in callbacks THEN <<"onKeyboardEvent">> ELSE <<>>
        quiet == [draft |-> draft, target |-> "", toast |-> "", invoked |-> first,
                  prevented |-> FALSE]
    IN  IF keyReturns(key, mods) THEN quiet
        ELSE LET target == keyTarget(key, mods)
                 toast == navToast(key, mods)
             IN  IF target \in {"finishRegion", "save"} /\ ~requiredFieldsFilled
                 THEN [quiet EXCEPT !.target = target, !.toast = ToastRequired]
                 ELSE IF target # "" /\ rendered(target)
                 THEN LET c == simulateClick(target)
                      IN  [draft |-> c.draft, target |-> target, toast |-> toast,
                           invoked |-> first \o c.invoked, prevented |-> TRUE]
                 ELSE [quiet EXCEPT !.target = target, !.toast = toast]

----------------------------------------------------------------------------
(* Props and drafts the control menu is mounted with. *)

DefLists == SeqsUpTo(Defs, MaxDefs)
Configs == [image : DefLists, regions : DefLists]

\* one required image-level type; a required and an optional region-level type
MainConfig ==
    [image   |-> <<[name |-> "quality", required |-> TRUE]>>,
     regions |-> <<[name |-> "quality", required |-> TRUE],
                   [name |-> "kind", required |-> FALSE]>>]

\* nothing required, so that every region can be finished
OptionalConfig ==
    [image |-> <<>>, regions |-> <<[name |-> "kind", required |-> FALSE]>>]

CallbackNames ==
    {"onKeyboardEvent", "onSave", "onNext", "onPrev", "onDelete", "onIgnore",
     "onUnignore", "onSaveConfig", "onReset", "onSelectAll", "onSelectNone", "onUndo"}

Good == [n \in {"quality"} |-> <<"good">>]
Blank == [n \in {"quality"} |-> <<>>]
AllGood == [n \in Names |-> <<"good">>]

\* the assignments the label panel reports in the draft machine
LabelChoices == {EmptyLabels, Blank, Good}

\* a readonly region the item comes with
LoadedRegion == [labels |-> Good, readonly |-> TRUE]

InitDraft(boxes) ==
    [labels  |-> [image |-> EmptyLabels, boxes |-> boxes, polygons |-> <<>>, masks |-> <<>>],
     drawing |-> [mode |-> "boxes", active |-> <<>>, flood |-> FALSE,
                  threshold |-> ThresholdMin, radius |-> RadiusMin],
     dirty   |-> FALSE]

----------------------------------------------------------------------------
(* Actions: one per input event. *)

\* the region buttons and the idle buttons are two branches of one conditional on
\* draft.drawing.active: when the draft handed to setDraft gains or loses its active
\* region the buttons of the old branch are unmounted, and a simulated click still
\* in flight is left with a button that is no longer in the menu
afterCommit(clicks, next) ==
    IF (next.drawing.active = <<>>) # (draft.drawing.active = <<>>)
    THEN [i \in DOMAIN clicks |-> [clicks[i] EXCEPT !.attached = FALSE]]
    ELSE clicks

regionCount ==
    Len(draft.labels.boxes) + Len(draft.labels.polygons) + Len(draft.labels.masks)
    + Len(active)

Event(kind, key, mods, target, toast, invoked, prevented, arg) ==
    [kind |-> kind, key |-> key, mods |-> mods, target |-> target, toast |-> toast,
     invoked |-> invoked, prevented |-> prevented, thrown |-> FALSE, arg |-> arg]

\* a key is pressed while the widget has the focus
KeyboardEvent(key, mods) ==
    LET r == handleKey(key, mods)
    IN  /\ draft' = r.draft
        /\ prev' = draft
        /\ ev' = Event("key", key, mods, r.target, r.toast, r.invoked, r.prevented, <<>>)
        /\ pending' = afterCommit(pending, draft')
        /\ UNCHANGED <<config, callbacks, disabled, state>>

\* a pointer click on a button that is on the screen
ClickButton(b) ==
    /\ rendered(b)
    /\ LET r == click(b)
       IN  /\ draft' = r.draft
           /\ prev' = draft
           /\ ev' = Event("click", "", {}, b, "", r.invoked, FALSE, <<>>)
    /\ pending' = afterCommit(pending, draft')
    /\ UNCHANGED <<config, callbacks, disabled, state>>

\* the label panel reports a new assignment (it ignores input while disabled)
SetLabels(current) ==
    /\ draft' = IF disableLabelPanel THEN draft ELSE setLabels(current)
    /\ prev' = draft
    /\ ev' = Event("setLabels", "", {}, "", "", <<>>, FALSE, <<current>>)
    /\ pending' = afterCommit(pending, draft')
    /\ UNCHANGED <<config, callbacks, disabled, state>>

\* the drawing-mode panel reports a choice (it ignores input while disabled)
SetMode(mode) ==
    /\ allowRegionSelection
    /\ draft' = IF modePanelDisabled THEN draft ELSE setMode(mode)
    /\ prev' = draft
    /\ ev' = Event("setMode", "", {}, "", "", <<>>, FALSE, <<mode>>)
    /\ pending' = afterCommit(pending, draft')
    /\ UNCHANGED <<config, callbacks, disabled, state>>

\* the flood checkbox of the mask controls
SetFlood(flood) ==
    /\ allowRegionSelection
    /\ draft.drawing.mode = "masks"
    /\ draft' = setFlood(flood)
    /\ prev' = draft
    /\ ev' = Event("setFlood", "", {}, "", "", <<>>, FALSE, <<flood>>)
    /\ pending' = afterCommit(pending, draft')
    /\ UNCHANGED <<config, callbacks, disabled, state>>

\* the flood threshold slider (disabled while flood is off)
SetThreshold(value) ==
    /\ allowRegionSelection
    /\ draft.drawing.mode = "masks"
    /\ draft' = IF ~draft.drawing.flood THEN draft ELSE setThreshold(value)
    /\ prev' = draft
    /\ ev' = Event("setThreshold", "", {}, "", "", <<>>, FALSE, <<value>>)
    /\ pending' = afterCommit(pending, draft')
    /\ UNCHANGED <<config, callbacks, disabled, state>>

\* the cursor size slider
SetRadius(value) ==
    /\ allowRegionSelection
    /\ draft.drawing.mode = "masks"
    /\ draft' = setRadius(value)
    /\ prev' = draft
    /\ ev' = Event("setRadius", "", {}, "", "", <<>>, FALSE, <<value>>)
    /\ pending' = afterCommit(pending, draft')
    /\ UNCHANGED <<config, callbacks, disabled, state>>

\* the drawing surface starts a new region
BeginRegion ==
    /\ ~hasActive
    /\ regionCount < MaxRegions
    /\ draft' = [draft EXCEPT !.drawing.active = <<[region |-> NewRegion]>>]
    /\ prev' = draft
    /\ ev' = Event("beginRegion", "", {}, "", "", <<>>, FALSE, <<>>)
    /\ pending' = afterCommit(pending, draft')
    /\ UNCHANGED <<config, callbacks, disabled, state>>

\* the drawing surface selects a committed region of the current mode
SelectRegion(i) ==
    /\ ~hasActive
    /\ i \in 1..Len(draft.labels[draft.drawing.mode])
    /\ LET list == draft.labels[draft.drawing.mode]
       IN  draft' = [draft EXCEPT
                        !.labels[draft.drawing.mode] =
                            SubSeq(list, 1, i - 1) \o SubSeq(list, i + 1, Len(list)),
                        !.drawing.active = <<[region |-> list[i]]>>]
    /\ prev' = draft
    /\ ev' = Event("selectRegion", "", {}, "", "", <<>>, FALSE, <<>>)
    /\ pending' = afterCommit(pending, draft')
    /\ UNCHANGED <<config, callbacks, disabled, state>>

----------------------------------------------------------------------------
(* The draft state machine: pointer commands and unmodified keys. *)

Init ==
    /\ config = MainConfig
    /\ callbacks \in {CallbackNames, {}}
    /\ disabled \in BOOLEAN
    /\ draft \in {InitDraft(<<>>), InitDraft(<<LoadedRegion>>)}
    /\ prev = draft
    /\ ev = NoEvent
    /\ state = ClosedEditor
    /\ pending = <<>>

Next ==
    \/ \E key \in Keys : KeyboardEvent(key, {})
    \/ \E b \in Buttons \cup {"reset"} : ClickButton(b)
    \/ \E current \in LabelChoices : SetLabels(current)
    \/ \E mode \in Modes : SetMode(mode)
    \/ BeginRegion
    \/ \E i \in 1..MaxRegions : SelectRegion(i)

Spec == Init /\ [][Next]_vars

----------------------------------------------------------------------------
(* The validation gate on its own: every configuration within the bound,   *)
(* on idle and on editing drafts, gated by the Enter key.                  *)

EditingDraft(image, region) ==
    [InitDraft(<<>>) EXCEPT !.labels.image = image,
                            !.drawing.active = <<[region |-> region]>>]

ValidationDrafts ==
    {[InitDraft(<<>>) EXCEPT !.labels.image = a] : a \in Assignments}
    \cup {EditingDraft(a, [labels |-> b, readonly |-> FALSE]) :
            a \in {EmptyLabels, AllGood}, b \in Assignments}

InitValidation ==
    /\ config \in Configs
    /\ callbacks = {"onSave"}
    /\ disabled = FALSE
    /\ draft \in ValidationDrafts
    /\ prev = draft
    /\ ev = NoEvent
    /\ state = ClosedEditor
    /\ pending = <<>>

NextValidation == KeyboardEvent("Enter", {})

SpecValidation == InitValidation /\ [][NextValidation]_vars

----------------------------------------------------------------------------
(* The drawing sub-state: mode panel and mask controls around a region.    *)

InitMasks ==
    /\ config = OptionalConfig
    /\ callbacks = {}
    /\ disabled \in BOOLEAN
    /\ draft = InitDraft(<<>>)
    /\ prev = draft
    /\ ev = NoEvent
    /\ state = ClosedEditor
    /\ pending = <<>>

NextMasks ==
    \/ \E mode \in Modes : SetMode(mode)
    \/ \E flood \in BOOLEAN : SetFlood(flood)
    \/ \E value \in ThresholdValues : SetThreshold(value)
    \/ \E value \in RadiusValues : SetRadius(value)
    \/ BeginRegion
    \/ \E b \in {"finishRegion", "clearRegion"} : ClickButton(b)

SpecMasks == InitMasks /\ [][NextMasks]_vars

----------------------------------------------------------------------------
(* The shortcut router: every key under every modifier combination.        *)

InitRouter ==
    /\ config = MainConfig
    /\ callbacks \in {CallbackNames, {}}
    /\ disabled \in BOOLEAN
    /\ draft = InitDraft(<<LoadedRegion>>)
    /\ prev = draft
    /\ ev = NoEvent
    /\ state = ClosedEditor
    /\ pending = <<>>

NextRouter ==
    \/ \E key \in Keys, mods \in SUBSET ModKeys : KeyboardEvent(key, mods)
    \/ SetLabels(Good)
    \/ BeginRegion
    \/ SelectRegion(1)

SpecRouter == InitRouter /\ [][NextRouter]_vars

----------------------------------------------------------------------------
(* The configuration editor: Add Type, editConfig, and the editor's onSave. *)

Levels == {"image", "regions"}
EmptyConfig == [image |-> <<>>, regions |-> <<>>]

\* Array.prototype.slice(from, to) and slice(from)
slice(s, from, to) ==
    LET norm(i) == IF i < 0 THEN (IF Len(s) + i < 0 THEN 0 ELSE Len(s) + i)
                   ELSE (IF i > Len(s) THEN Len(s) ELSE i)
    IN  SubSeq(s, norm(from) + 1, norm(to))
sliceFrom(s, from) == slice(s, from, Len(s))

\* activeConfig.findIndex((c) => c.name == name)
findIndex(defs, name) ==
    IF \E i \in DOMAIN defs : defs[i].name = name
    THEN (CHOOSE i \in DOMAIN defs :
            defs[i].name = name /\ \A j \in 1..(i - 1) : defs[j].name # name) - 1
    ELSE -1

\* (computedState.config[level] || []).find((c) => c.name === newLabelConfig.name)
\* looked up in both levels
nameTakenAnywhere(lvl, name) ==
    \E l \in Levels : \E i \in DOMAIN config[l] : config[l][i].name = name

\* (computedState.config[level] || []).find((c) => c.name === newLabelConfig.name)
nameTaken(lvl, name) == \E i \in DOMAIN config[lvl] : config[lvl][i].name = name

\* the list the editor's onSave hands to onSaveConfig for the level
savedList(newLabelConfig, lvl) ==
    LET previous == config[lvl]
        index == IF state.index = <<>> THEN Len(previous) ELSE state.index[1]
    IN  slice(previous, 0, index) \o <<newLabelConfig>> \o sliceFrom(previous, index + 1)

\* the editor's onSave: [thrown, called, config, state]
onSave(newLabelConfig, lvl) ==
    IF state.index = <<>> /\ nameTaken(lvl, newLabelConfig.name)
    THEN [thrown |-> TRUE, called |-> FALSE, config |-> config, state |-> state]
    ELSE [thrown |-> FALSE, called |-> TRUE,
          config |-> [config EXCEPT ![lvl] = savedList(newLabelConfig, lvl)],
          state |-> ClosedEditor]

\* the Add Type button
OpenAddType ==
    /\ "onSaveConfig" \in callbacks
    /\ ~hasActive
    /\ ~state.configEditorOpen
    /\ state' = [configEditorOpen |-> TRUE, index |-> <<>>]
    /\ prev' = draft
    /\ ev' = Event("addType", "", {}, "", "", <<>>, FALSE, <<>>)
    /\ UNCHANGED <<config, callbacks, disabled, draft, pending>>

\* computedState.editConfig(name), called by the label panel for one of its types
EditConfig(name) ==
    /\ "onSaveConfig" \in callbacks
    /\ ~state.configEditorOpen
    /\ \E i \in DOMAIN activeConfig : activeConfig[i].name = name
    /\ state' = [configEditorOpen |-> TRUE, index |-> <<findIndex(activeConfig, name)>>]
    /\ prev' = draft
    /\ ev' = Event("editConfig", "", {}, "", "", <<>>, FALSE, <<name, level>>)
    /\ UNCHANGED <<config, callbacks, disabled, draft, pending>>

\* the editor's onClose
CloseEditor ==
    /\ "onSaveConfig" \in callbacks
    /\ state.configEditorOpen
    /\ state' = [state EXCEPT !.configEditorOpen = FALSE]
    /\ prev' = draft
    /\ ev' = Event("closeEditor", "", {}, "", "", <<>>, FALSE, <<>>)
    /\ UNCHANGED <<config, callbacks, disabled, draft, pending>>

\* the editor hands a definition and a level to onSave; the configuration handed
\* to onSaveConfig becomes the config prop. ev.arg keeps what the handler was
\* called with and read: the definition, the level, the config and state.index
SaveDefinition(newLabelConfig, lvl) ==
    /\ "onSaveConfig" \in callbacks
    /\ state.configEditorOpen
    /\ Len(savedList(newLabelConfig, lvl)) <= MaxDefs
    /\ LET r == onSave(newLabelConfig, lvl)
       IN  /\ config' = r.config
           /\ state' = r.state
           /\ ev' = [Event("saveDefinition", "", {}, "", "",
                           IF r.called THEN <<"onSaveConfig">> ELSE <<>>, FALSE,
                           <<newLabelConfig, lvl, config, state.index>>)
                     EXCEPT !.thrown = r.thrown]
    /\ prev' = draft
    /\ UNCHANGED <<callbacks, disabled, draft, pending>>

\* the levels the editor may hand to onSave: saveDefinition takes the level as
\* an argument of its own, next to existingIndex
editorLevels == Levels

\* the definitions the editor may hand to onSave: newDefinition is an argument of
\* saveDefinition with no tie to the definition the editor was opened on
editorDefinitions == Defs

InitConfig ==
    /\ config \in {EmptyConfig, MainConfig}
    /\ callbacks = {"onSaveConfig"}
    /\ disabled = FALSE
    /\ draft = InitDraft(<<>>)
    /\ prev = draft
    /\ ev = NoEvent
    /\ state = ClosedEditor
    /\ pending = <<>>

NextConfig ==
    \/ OpenAddType
    \/ \E name \in Names : EditConfig(name)
    \/ CloseEditor
    \/ \E newLabelConfig \in editorDefinitions, lvl \in editorLevels :
            SaveDefinition(newLabelConfig, lvl)
    \/ ~state.configEditorOpen /\ BeginRegion
    \/ ~state.configEditorOpen /\ ClickButton("clearRegion")

SpecConfig == InitConfig /\ [][NextConfig]_vars

----------------------------------------------------------------------------
(* Every transition of the draft the control menu itself performs. *)

InitDirty ==
    /\ config = MainConfig
    /\ callbacks = {}
    /\ disabled = FALSE
    /\ draft = InitDraft(<<>>)
    /\ prev = draft
    /\ ev = NoEvent
    /\ state = ClosedEditor
    /\ pending = <<>>

NextDirty ==
    \/ SetLabels(Good)
    \/ \E b \in {"finishRegion", "clearRegion"} : ClickButton(b)
    \/ \E key \in {"Enter", "Backspace", "Delete"} : KeyboardEvent(key, {})
    \/ \E mode \in Modes : SetMode(mode)
    \/ \E flood \in BOOLEAN : SetFlood(flood)
    \/ \E value \in ThresholdValues : SetThreshold(value)
    \/ \E value \in RadiusValues : SetRadius(value)
    \/ BeginRegion

SpecDirty == InitDirty /\ [][NextDirty]_vars

----------------------------------------------------------------------------
(* Keyboard and pointer input together, with present, partly present and absent
   callbacks. *)

InitInput ==
    /\ config = MainConfig
    /\ callbacks \in {CallbackNames, {"onPrev", "onDelete"}, {}}
    /\ disabled \in BOOLEAN
    /\ draft = InitDraft(<<LoadedRegion>>)
    /\ prev = draft
    /\ ev = NoEvent
    /\ state = ClosedEditor
    /\ pending = <<>>

NextInput ==
    \/ \E key \in Keys, mods \in SUBSET ModKeys : KeyboardEvent(key, mods)
    \/ \E b \in Buttons \cup {"reset"} : ClickButton(b)
    \/ SetLabels(Good)
    \/ BeginRegion
    \/ SelectRegion(1)

SpecInput == InitInput /\ [][NextInput]_vars

----------------------------------------------------------------------------
(* finishRegion called by whoever holds it, with or without an active region. *)

FinishRegionCalled(save) ==
    /\ LET r == finishRegionCall(save)
       IN  /\ draft' = r.draft
           /\ ev' = [Event("finishRegion", "", {}, "", "", <<>>, FALSE, <<save>>)
                     EXCEPT !.thrown = r.thrown]
    /\ prev' = draft
    /\ pending' = afterCommit(pending, draft')
    /\ UNCHANGED <<config, callbacks, disabled, state>>

InitCalls ==
    /\ config = MainConfig
    /\ callbacks = {}
    /\ disabled = FALSE
    /\ draft \in {InitDraft(<<>>), InitDraft(<<LoadedRegion>>)}
    /\ prev = draft
    /\ ev = NoEvent
    /\ state = ClosedEditor
    /\ pending = <<>>

NextCalls ==
    \/ \E save \in BOOLEAN : FinishRegionCalled(save)
    \/ \E current \in LabelChoices : SetLabels(current)
    \/ BeginRegion
    \/ \E i \in 1..MaxRegions : SelectRegion(i)

SpecCalls == InitCalls /\ [][NextCalls]_vars

----------------------------------------------------------------------------
(* The simulated click of a key lands after the key handler has returned; other
   input may be handled in between. *)

\* the simulated click arrives at its button: a button still in the menu handles it
\* as a pointer click, with its disabled prop and its onClick of the current render
landed(p) ==
    IF p.attached THEN click(p.target)
    ELSE [draft |-> draft, invoked |-> <<>>]

\* the key handler runs to its end: it resolves the key, emits its toast, and when
\* it dispatches it issues the simulated click and prevents the event; the draft
\* is not touched by the handler itself
KeyPressed(key, mods) ==
    LET h == handleKey(key, mods)
        first == IF "onKeyboardEvent" \in callbacks THEN <<"onKeyboardEvent">> ELSE <<>>
    IN  /\ h.prevented => Len(pending) < MaxInFlight
        /\ draft' = draft
        /\ prev' = draft
        /\ ev' = Event("keyPressed", key, mods, h.target, h.toast, first, h.prevented, <<>>)
        /\ pending' = IF h.prevented
                      THEN Append(pending, [target |-> h.target, attached |-> TRUE,
                                            seen |-> labels])
                      ELSE pending
        /\ UNCHANGED <<config, callbacks, disabled, state>>

\* the oldest simulated click in flight lands. ev.arg keeps whether its button was
\* still in the menu and the labels its key handler had validated
ClickLands ==
    /\ pending # <<>>
    /\ LET p == Head(pending)
           r == landed(p)
       IN  /\ draft' = r.draft
           /\ ev' = Event("clickLands", "", {}, p.target, "", r.invoked, FALSE,
                          <<p.attached, p.seen>>)
           /\ pending' = afterCommit(Tail(pending), draft')
    /\ prev' = draft
    /\ UNCHANGED <<config, callbacks, disabled, state>>

InitAsync ==
    /\ config = MainConfig
    /\ callbacks = CallbackNames
    /\ disabled = FALSE
    /\ draft = InitDraft(<<LoadedRegion>>)
    /\ prev = draft
    /\ ev = NoEvent
    /\ state = ClosedEditor
    /\ pending = <<>>

AsyncKeys == {"Enter", "Backspace", "ArrowRight", "ArrowLeft"}

NextAsync ==
    \/ \E key \in AsyncKeys : KeyPressed(key, {})
    \/ ClickLands
    \/ \E current \in {Blank, Good, AllGood} : SetLabels(current)
    \/ \E b \in {"finishRegion", "clearRegion", "save", "next"} : ClickButton(b)
    \/ BeginRegion
    \/ SelectRegion(1)

SpecAsync == InitAsync /\ [][NextAsync]_vars

----------------------------------------------------------------------------
(* Properties. *)

\* every required definition of defs has a non-empty entry in assignment
RequiredSatisfied(defs, assignment) ==
    \A d \in {defs[i] : i \in DOMAIN defs} :
        d.required => (d.name \in DOMAIN assignment /\ assignment[d.name] # <<>>)

Editing(d) == d.drawing.active # <<>>
RegionOf(d) == d.drawing.active[1].region
RelevantDefs(d) == IF Editing(d) THEN config.regions ELSE config.image
RelevantLabels(d) == IF Editing(d) THEN RegionOf(d).labels ELSE d.labels.image
Satisfied(d) == RequiredSatisfied(RelevantDefs(d), RelevantLabels(d))

EnterPressed == ev.kind = "key" /\ ev.key = "Enter" /\ ev.mods = {}

\* C1: requiredFieldsFilled is true exactly when every required definition of the
\* currently relevant level (the region level and the active region's labels while
\* a region is active, the image level and the image labels otherwise) has a
\* non-empty entry, a missing key counting as empty; and the Enter key is gated on
\* exactly that, evaluated on the draft the key was pressed on.
C1_RequiredFieldsFilled ==
    /\ requiredFieldsFilled <=> Satisfied(draft)
    /\ EnterPressed => ((ev.toast = ToastRequired) <=> ~Satisfied(prev))

\* an active region lacks the key of a required region-level definition while the
\* image labels satisfy a required image-level definition: the Enter key was rejected
C1_Witness ==
    /\ EnterPressed /\ ev.toast = ToastRequired
    /\ Editing(draft) /\ ~requiredFieldsFilled
    /\ \E i \in DOMAIN config.regions :
          config.regions[i].required
          /\ config.regions[i].name \notin DOMAIN RegionOf(draft).labels
    /\ \E i \in DOMAIN config.image : config.image[i].required
    /\ RequiredSatisfied(config.image, draft.labels.image)

\* the last event was a command on the given button: a pointer click on it, or a
\* key the router resolved to it
Commanded(b) == ev.kind \in {"click", "key"} /\ ev.target = b

\* C2: a finishRegion(commit=true) attempt (Enter key or Finish button) on an active
\* region whose required fields are not satisfied is rejected: the draft after the
\* attempt is the draft before it, and nothing was appended to any region list.
C2_RejectedFinishKeepsDraft ==
    (Commanded("finishRegion") /\ Editing(prev) /\ ~Satisfied(prev)) => draft = prev

\* Enter was pressed on an active region with an unfilled required field
C2_Witness ==
    /\ EnterPressed /\ ev.target = "finishRegion" /\ ev.toast = ToastRequired
    /\ Editing(prev) /\ ~Satisfied(prev)
    /\ Editing(draft) /\ draft = prev

\* C3: finishRegion(commit=false) on an active region returns the draft to Idle
\* whether or not the required fields are satisfied, leaves every committed region
\* list (and the image labels) as it was, and sets dirty; the control menu runs it
\* on every Delete command on a region that is not readonly.
C3_ClearRegion ==
    /\ Editing(draft) =>
          /\ finishRegion(FALSE).drawing.active = <<>>
          /\ finishRegion(FALSE).labels = draft.labels
          /\ finishRegion(FALSE).dirty
    /\ (Commanded("clearRegion") /\ Editing(prev) /\ ~RegionOf(prev).readonly) =>
          /\ ~Editing(draft)
          /\ draft.labels = prev.labels
          /\ draft.dirty
          /\ draft.drawing = [prev.drawing EXCEPT !.active = <<>>]

\* two committed boxes, a new region with unfilled required fields is cleared:
\* still exactly those two boxes, and the draft is dirty
C3_Witness ==
    /\ Commanded("clearRegion") /\ Editing(prev) /\ ~Satisfied(prev)
    /\ prev.drawing.mode = "boxes" /\ Len(prev.labels.boxes) = 2
    /\ ~Editing(draft) /\ Len(draft.labels.boxes) = 2 /\ draft.dirty

\* C4: an accepted finishRegion(commit=true) on a non-readonly active region puts
\* the region at the head of the list of the current drawing mode, the previous
\* entries following in their order, clears the active slot, sets dirty, and leaves
\* the image labels and the lists of the other two modes unchanged.
C4_FinishPrepends ==
    (Commanded("finishRegion") /\ Editing(prev) /\ Satisfied(prev)
     /\ ~RegionOf(prev).readonly) =>
        /\ draft.labels[prev.drawing.mode] = <<RegionOf(prev)>> \o prev.labels[prev.drawing.mode]
        /\ \A m \in Modes \ {prev.drawing.mode} : draft.labels[m] = prev.labels[m]
        /\ draft.labels.image = prev.labels.image
        /\ ~Editing(draft)
        /\ draft.dirty
        /\ draft.drawing = [prev.drawing EXCEPT !.active = <<>>]

\* a region was finished in front of a committed region that differs from it
C4_Witness ==
    /\ Commanded("finishRegion") /\ Editing(prev) /\ ~RegionOf(prev).readonly
    /\ Len(prev.labels[prev.drawing.mode]) > 0
    /\ prev.labels[prev.drawing.mode][1] # RegionOf(prev)
    /\ Len(draft.labels[prev.drawing.mode]) = Len(prev.labels[prev.drawing.mode]) + 1
    /\ draft.labels[prev.drawing.mode][1] = RegionOf(prev)

\* C5 as stated: finishing (Deselect) a readonly active region returns the draft
\* to Idle and leaves the region list of the current mode as it was before.
C5_ReadonlyFinishAddsNothing ==
    (Commanded("finishRegion") /\ Editing(prev) /\ Satisfied(prev)
     /\ RegionOf(prev).readonly) =>
        /\ ~Editing(draft)
        /\ draft.labels[prev.drawing.mode] = prev.labels[prev.drawing.mode]

\* C5 as amended: finishing (Deselect) a readonly active region whose required
\* fields are satisfied returns the draft to Idle and puts that region, unchanged
\* and still readonly, at the head of the list of the current drawing mode, as for
\* any other region: the list grows by one and no other list changes.
C5_ReadonlyFinishPrepends ==
    (Commanded("finishRegion") /\ Editing(prev) /\ Satisfied(prev)
     /\ RegionOf(prev).readonly) =>
        /\ ~Editing(draft)
        /\ draft.labels[prev.drawing.mode] = <<RegionOf(prev)>> \o prev.labels[prev.drawing.mode]
        /\ draft.labels[prev.drawing.mode][1].readonly
        /\ \A m \in Modes \ {prev.drawing.mode} : draft.labels[m] = prev.labels[m]
        /\ draft.labels.image = prev.labels.image

\* a readonly region was deselected and is the head of its list again
C5_Witness ==
    /\ Commanded("finishRegion") /\ Editing(prev) /\ RegionOf(prev).readonly
    /\ ~Editing(draft)
    /\ Len(draft.labels[prev.drawing.mode]) = Len(prev.labels[prev.drawing.mode]) + 1
    /\ draft.labels[prev.drawing.mode][1] = RegionOf(prev)

\* C6: while the active region is readonly no command of the control menu changes
\* its labels or discards it: after any event the same region is still active,
\* unless the event was the finish/deselect command, which alone leaves Editing
\* (and keeps the region, in the list of the current mode).
C6_ReadonlyRegionKept ==
    (Editing(prev) /\ RegionOf(prev).readonly) =>
        \/ draft.drawing.active = prev.drawing.active
        \/ /\ Commanded("finishRegion")
           /\ ~Editing(draft)
           /\ draft.labels[prev.drawing.mode][1] = RegionOf(prev)

\* the Delete key was pressed on a readonly active region: the router resolved it
\* to the clear command, and the region is still active with its labels
C6_Witness ==
    /\ ev.kind = "key" /\ ev.key = "Delete" /\ ev.target = "clearRegion"
    /\ Editing(prev) /\ RegionOf(prev).readonly
    /\ draft = prev

\* C7: a mode switch is rejected whenever a region is active: the drawing-mode
\* command is then a no-op, and no event handled while a region is active changes
\* drawing.mode, so the mode is the same from beginRegion to the matching
\* finishRegion.
C7_ModeFixedWhileEditing ==
    Editing(prev) =>
        /\ draft.drawing.mode = prev.drawing.mode
        /\ ev.kind = "setMode" => draft = prev

\* another mode was chosen on the enabled menu while a region was active
C7_Witness ==
    /\ ev.kind = "setMode" /\ Editing(prev) /\ ~disabled
    /\ ev.arg[1] # prev.drawing.mode
    /\ draft = prev

\* C8: a mode switch leaves flood, threshold and radius unchanged; no mode switch
\* resets or clamps them, whichever mode is left and whichever is entered.
C8_ModeSwitchKeepsFloodParams ==
    ev.kind = "setMode" =>
        /\ draft.drawing.flood = prev.drawing.flood
        /\ draft.drawing.threshold = prev.drawing.threshold
        /\ draft.drawing.radius = prev.drawing.radius
        /\ draft.drawing.active = prev.drawing.active
        /\ draft.labels = prev.labels

\* flood was switched on and the threshold set to 10 in masks mode, a region was
\* finished there, and the mode was then switched to boxes
C8_Witness ==
    /\ ev.kind = "setMode" /\ prev.drawing.mode = "masks" /\ draft.drawing.mode = "boxes"
    /\ Len(draft.labels.masks) > 0
    /\ draft.drawing.flood /\ draft.drawing.threshold = 10
    /\ draft.drawing.radius = RadiusMax

\* C9: with no ctrl, shift or alt held the router resolves Enter to save when the
\* draft is Idle and to finishRegion (commit=true) when a region is active; with
\* ctrl or shift held Enter resolves to no command: nothing is dispatched, no toast
\* is shown and the event is not prevented.
C9_EnterResolution ==
    (ev.kind = "key" /\ ev.key = "Enter") =>
        /\ ev.mods \cap {"ctrl", "shift", "alt"} = {} =>
              /\ ev.target = IF Editing(prev) THEN "finishRegion" ELSE "save"
              /\ (Editing(prev) /\ Satisfied(prev)) =>
                    (~Editing(draft) /\ draft.labels[prev.drawing.mode][1] = RegionOf(prev))
              /\ (~Editing(prev) /\ Satisfied(prev) /\ "onSave" \in callbacks /\ ~disabled) =>
                    ev.invoked[Len(ev.invoked)] = "onSave"
        /\ ev.mods \cap {"ctrl", "shift"} # {} =>
              /\ ev.target = "" /\ ev.toast = "" /\ ~ev.prevented
              /\ draft = prev
              /\ \A i \in DOMAIN ev.invoked : ev.invoked[i] = "onKeyboardEvent"

\* Enter, with no modifier, finished the active region
C9_Witness ==
    /\ EnterPressed /\ ev.target = "finishRegion" /\ ev.prevented
    /\ Editing(prev) /\ ~Editing(draft)

\* C10: on an Idle draft with empty image labels and the required image-level
\* definition 'quality', Enter is rejected: onSave is not invoked, the toast is
\* 'Please fill in all required fields.' and the draft is unchanged; the label
\* panel then sets the image labels to {quality: ["good"]}; and Enter on an Idle
\* draft whose image labels are {quality: ["good"]}, with onSave provided, invokes
\* onSave with no toast (the props of the menu being those the labels were set under).
C10_EnterSaveScenario ==
    /\ (EnterPressed /\ ~Editing(prev) /\ prev.labels.image = EmptyLabels) =>
          /\ \A i \in DOMAIN ev.invoked : ev.invoked[i] # "onSave"
          /\ ev.toast = ToastRequired
          /\ draft = prev
    /\ (ev.kind = "setLabels" /\ ev.arg = <<Good>> /\ ~Editing(prev) /\ ~disabled) =>
          draft.labels.image = Good
    /\ (EnterPressed /\ ~Editing(prev) /\ prev.labels.image = Good
        /\ "onSave" \in callbacks) =>
          /\ ev.invoked # <<>> /\ ev.invoked[Len(ev.invoked)] = "onSave"
          /\ ev.toast = ""

\* the labels were set to {quality: ["good"]} (the draft is dirty), Enter was
\* pressed and onSave was invoked
C10_Witness ==
    /\ EnterPressed /\ ev.target = "save"
    /\ ev.invoked # <<>> /\ ev.invoked[Len(ev.invoked)] = "onSave"
    /\ draft.labels.image = Good /\ draft.dirty /\ ~Editing(draft)
    /\ config.image = <<[name |-> "quality", required |-> TRUE]>>

SaveEvent == ev.kind = "saveDefinition"
SavedDef == ev.arg[1]
SavedLevel == ev.arg[2]
ConfigBefore == ev.arg[3]
IndexBefore == ev.arg[4]
OtherLevel(lvl) == IF lvl = "image" THEN "regions" ELSE "image"
NamesOf(defs) == {defs[i].name : i \in DOMAIN defs}

\* C11: adding a definition (index null) whose name is the name of a definition of
\* the same level throws and onSaveConfig is not called (the configuration and the
\* editor stay as they were); adding one whose name is not in the chosen level, even
\* if it is in the other level, is accepted: it is appended to the end of the
\* chosen level's list and the other level's list is unchanged.
C11_AddDefinition ==
    (SaveEvent /\ IndexBefore = <<>>) =>
        IF SavedDef.name \in NamesOf(ConfigBefore[SavedLevel])
        THEN /\ ev.thrown /\ ev.invoked = <<>>
             /\ config = ConfigBefore
             /\ state.configEditorOpen
        ELSE /\ ~ev.thrown /\ ev.invoked = <<"onSaveConfig">>
             /\ config[SavedLevel] = Append(ConfigBefore[SavedLevel], SavedDef)
             /\ config[OtherLevel(SavedLevel)] = ConfigBefore[OtherLevel(SavedLevel)]

\* a definition was added to a level although the other level holds its name
C11_Witness ==
    /\ SaveEvent /\ IndexBefore = <<>> /\ ~ev.thrown
    /\ SavedDef.name \in NamesOf(ConfigBefore[OtherLevel(SavedLevel)])
    /\ Len(ConfigBefore[SavedLevel]) > 0
    /\ config[SavedLevel][Len(config[SavedLevel])] = SavedDef

\* C12: editing a definition (index non-null) replaces exactly the definition at
\* that position of the list of the level handed back: the list keeps its length,
\* the position holds the new definition, every other position holds the
\* definition it held, and the other level's list is unchanged.
C12_EditReplacesInPlace ==
    (SaveEvent /\ IndexBefore # <<>>) =>
        LET before == ConfigBefore[SavedLevel]
            after == config[SavedLevel]
            pos == IndexBefore[1] + 1
        IN  /\ ~ev.thrown /\ ev.invoked = <<"onSaveConfig">>
            /\ Len(after) = Len(before)
            /\ pos \in DOMAIN after /\ after[pos] = SavedDef
            /\ \A i \in DOMAIN before : i # pos => after[i] = before[i]
            /\ config[OtherLevel(SavedLevel)] = ConfigBefore[OtherLevel(SavedLevel)]

MenuTransitions == {"setLabels", "click", "key", "setMode", "setFlood", "setThreshold", "setRadius"}

\* C13: no transition of the control menu (set labels, finish or clear region by
\* button or key, mode switch, flood, threshold or radius change) takes a dirty
\* draft to a draft that is not dirty.
C13_DirtyNeverCleared ==
    (ev.kind \in MenuTransitions /\ prev.dirty) => draft.dirty

\* a transition other than set-labels has changed a draft that was dirty
C13_Witness ==
    /\ ev.kind \in {"setMode", "setFlood", "setThreshold", "setRadius", "click"}
    /\ prev.dirty /\ draft # prev /\ draft.dirty

Invoked(callback) == \E i \in DOMAIN ev.invoked : ev.invoked[i] = callback
ArrowKeys == {"ArrowRight", "ArrowLeft"}
NavCallback(target) == IF target = "next" THEN "onNext" ELSE "onPrev"
NavOf(key) == IF key = "ArrowRight" THEN "next" ELSE "prev"
\* the Previous / Next button was shown and enabled on the draft the event arrived on
NavEnabled(target) == ~Editing(prev) /\ NavCallback(target) \in callbacks /\ ~prev.dirty

\* C14: onNext and onPrev are never invoked on a dirty draft, by button or by arrow
\* key; an unmodified arrow key invokes the callback exactly when a click on the
\* button would (idle, callback present, draft not dirty); on a dirty draft the
\* unmodified arrow key leaves the draft alone, dispatches nothing and emits the
\* toast of its direction.
C14_NoNavigationWhileDirty ==
    /\ (Invoked("onNext") \/ Invoked("onPrev")) => ~prev.dirty
    /\ \A target \in {"next", "prev"} :
          /\ (ev.kind = "click" /\ ev.target = target) =>
                (Invoked(NavCallback(target)) <=> NavEnabled(target))
          /\ (ev.kind = "key" /\ ev.key \in ArrowKeys /\ NavOf(ev.key) = target /\ ev.mods = {}) =>
                /\ Invoked(NavCallback(target)) <=> NavEnabled(target)
                /\ prev.dirty =>
                      /\ draft = prev
                      /\ ev.target = "" /\ ~ev.prevented
                      /\ ~Invoked("onNext") /\ ~Invoked("onPrev")
                      /\ ev.toast = (IF target = "next" THEN ToastNext ELSE ToastPrev)

\* an unmodified ArrowRight on a dirty idle draft, with onNext present, was blocked
C14_Witness ==
    /\ ev.kind = "key" /\ ev.key = "ArrowRight" /\ ev.mods = {}
    /\ prev.dirty /\ ~Editing(prev) /\ "onNext" \in callbacks
    /\ ev.toast = ToastNext /\ ev.invoked = <<"onKeyboardEvent">>

BoundCommands == {"next", "prev", "save", "delete"}
CallbackOf(command) ==
    CASE command = "next" -> "onNext"
      [] command = "prev" -> "onPrev"
      [] command = "save" -> "onSave"
      [] command = "delete" -> "onDelete"
\* the command an event asks for on an idle draft: the button clicked, or the
\* command of the unmodified key
CommandAsked ==
    IF Editing(prev) THEN ""
    ELSE IF ev.kind = "click" THEN ev.target
    ELSE IF ev.kind = "key" /\ ev.mods = {}
    THEN CASE ev.key = "ArrowRight" -> "next"
           [] ev.key = "ArrowLeft" -> "prev"
           [] ev.key = "Enter" -> "save"
           [] ev.key \in {"Backspace", "Delete"} -> "delete"
           [] OTHER -> ""
    ELSE ""
\* the command's callback is absent, or its button is disabled
Blocked(command) ==
    \/ CallbackOf(command) \notin callbacks
    \/ command \in {"next", "prev"} /\ prev.dirty
    \/ command \in {"save", "delete"} /\ disabled
    \/ command = "save" /\ ~RequiredSatisfied(config.image, prev.labels.image)
NoCallback == \A i \in DOMAIN ev.invoked : ev.invoked[i] = "onKeyboardEvent"

\* C15 as stated: a command whose callback is absent or whose button is disabled
\* changes nothing, invokes no callback, raises no error and emits no toast.
C15_BlockedCommandSilent ==
    (CommandAsked \in BoundCommands /\ Blocked(CommandAsked)) =>
        /\ draft = prev /\ NoCallback /\ ~ev.thrown
        /\ ev.toast = ""

\* C15, amended: such a command changes nothing, invokes no callback and raises no
\* error; by button it emits no toast; by key it emits the save-or-reset toast of
\* its direction when it is an arrow key on a dirty draft, the required-fields toast
\* when it is Enter and a required image-level field is not filled, and no toast
\* otherwise.
C15_BlockedCommandNoOp ==
    (CommandAsked \in BoundCommands /\ Blocked(CommandAsked)) =>
        /\ draft = prev /\ NoCallback /\ ~ev.thrown
        /\ ev.toast =
              IF ev.kind = "key" /\ ev.key = "ArrowRight" /\ prev.dirty THEN ToastNext
              ELSE IF ev.kind = "key" /\ ev.key = "ArrowLeft" /\ prev.dirty THEN ToastPrev
              ELSE IF ev.kind = "key" /\ ev.key = "Enter"
                      /\ ~RequiredSatisfied(config.image, prev.labels.image)
              THEN ToastRequired
              ELSE ""

\* ArrowRight on a clean idle draft while onPrev is present and onNext is absent:
\* the Next button is shown, disabled, and the key did nothing
C15_Witness ==
    /\ ev.kind = "key" /\ ev.key = "ArrowRight" /\ ev.mods = {}
    /\ ~Editing(prev) /\ ~prev.dirty
    /\ "onNext" \notin callbacks /\ "onPrev" \in callbacks
    /\ ev.target = "next" /\ ev.toast = "" /\ draft = prev

\* the router's resolution table: the command of a key event on the draft it
\* arrived on; "" is no command
HeldCtrlOrShift == "ctrl" \in ev.mods \/ "shift" \in ev.mods
Resolved ==
    IF ev.kind # "key" \/ "alt" \in ev.mods \/ HeldCtrlOrShift THEN ""
    ELSE CASE ev.key = "Enter" -> IF Editing(prev) THEN "finishRegion" ELSE "save"
           [] ev.key = "ArrowRight" -> IF Editing(prev) THEN "" ELSE "next"
           [] ev.key = "ArrowLeft" -> IF Editing(prev) THEN "" ELSE "prev"
           [] OTHER -> ""

\* C16: a toast is emitted while handling an event exactly when the event resolved
\* to save or finishRegion(commit) and the required fields of the relevant
\* assignment are not satisfied, or the event resolved to next or prev and the
\* draft is dirty; no other event, key, modifier combination or state emits one.
C16_ToastExactlyOnRejection ==
    (ev.toast # "") <=>
        \/ Resolved \in {"save", "finishRegion"} /\ ~Satisfied(prev)
        \/ Resolved \in {"next", "prev"} /\ prev.dirty

\* C20: an arrow key resolves to next / prev only with neither ctrl nor shift held
\* and only on an idle draft; with ctrl or shift held, or with a region active, it
\* resolves to no command, no callback is dispatched, nothing is prevented and no
\* toast is emitted, for ArrowRight and ArrowLeft alike.
C20_ArrowKeysSymmetric ==
    (ev.kind = "key" /\ ev.key \in ArrowKeys /\ "alt" \notin ev.mods) =>
        /\ ev.target \in {"next", "prev"} =>
              ~HeldCtrlOrShift /\ ~Editing(prev) /\ ev.target = NavOf(ev.key)
        /\ (HeldCtrlOrShift \/ Editing(prev)) =>
              /\ ev.target = "" /\ NoCallback /\ ~ev.prevented
              /\ ev.toast = "" /\ draft = prev

\* the label panel was enabled on the draft the event arrived on
PanelEnabled == ~disabled /\ ~(Editing(prev) /\ RegionOf(prev).readonly)

\* C17: set-labels from the enabled label panel is routed by the state of the
\* draft: with a region active it replaces that region's labels and leaves the
\* image-level labels, every committed region list and the rest of the drawing
\* sub-state as they were; when idle it replaces the image-level labels and leaves
\* the committed lists and the drawing sub-state as they were; either way the
\* draft is dirty afterwards.
C17_SetLabelsRouted ==
    (ev.kind = "setLabels" /\ PanelEnabled) =>
        /\ draft.dirty
        /\ IF Editing(prev)
           THEN /\ draft.labels = prev.labels
                /\ Editing(draft)
                /\ RegionOf(draft) = [RegionOf(prev) EXCEPT !.labels = ev.arg[1]]
                /\ draft.drawing = [prev.drawing EXCEPT !.active = draft.drawing.active]
           ELSE /\ draft.labels = [prev.labels EXCEPT !.image = ev.arg[1]]
                /\ draft.drawing = prev.drawing

\* labels were set on an active region whose labels and whose image's labels were
\* different from the new ones, with a committed region in the list
C17_Witness ==
    /\ ev.kind = "setLabels" /\ Editing(prev)
    /\ RegionOf(prev).labels # ev.arg[1] /\ RegionOf(draft).labels = ev.arg[1]
    /\ draft.labels.image # ev.arg[1]
    /\ draft.labels.boxes # <<>>

\* C18: onSave is never invoked from a draft with an active region, and whenever
\* it is invoked, by the Save button or by Enter, every required image-level
\* definition has a non-empty entry in the image-level labels of that draft.
C18_SaveOnlyIdleAndValid ==
    Invoked("onSave") =>
        /\ ~Editing(prev)
        /\ RequiredSatisfied(config.image, prev.labels.image)
        /\ ev.kind \in {"click", "key"} /\ ev.target = "save"

\* Enter invoked onSave on a draft that holds a committed region
C18_Witness ==
    /\ ev.kind = "key" /\ ev.key = "Enter" /\ Invoked("onSave")
    /\ prev.labels.boxes # <<>>

\* C19: finishRegion called, with either argument, on a draft without an active
\* region throws, and the draft is left as it was.
C19_FinishWithoutRegionThrows ==
    (ev.kind = "finishRegion" /\ ~Editing(prev)) => (ev.thrown /\ draft = prev)

\* finishRegion(true) was called on a dirty idle draft that holds regions, and threw
C19_Witness ==
    /\ ev.kind = "finishRegion" /\ ev.arg = <<TRUE>> /\ ~Editing(prev)
    /\ prev.dirty /\ prev.labels.boxes # <<>>
    /\ ev.thrown

\* the whole resolution table of the router: the command of a key event on the
\* draft it arrived on; "" is no command
TableCommand ==
    IF ev.kind # "key" \/ "alt" \in ev.mods THEN ""
    ELSE CASE ev.key \in {"Enter", "ArrowRight", "ArrowLeft"} -> Resolved
           [] ev.key \in {"Backspace", "Delete"} ->
                 IF HeldCtrlOrShift THEN ""
                 ELSE IF Editing(prev) THEN "clearRegion" ELSE "delete"
           [] ev.key = "a" ->
                 IF "ctrl" \in ev.mods /\ "shift" \notin ev.mods /\ ~Editing(prev)
                 THEN "selectAll" ELSE ""
           [] ev.key = "A" ->
                 IF "ctrl" \in ev.mods /\ "shift" \in ev.mods /\ ~Editing(prev)
                 THEN "selectNone" ELSE ""
           [] ev.key = "z" ->
                 IF ("meta" \in ev.mods) # ("ctrl" \in ev.mods)
                 THEN (IF Editing(prev) THEN "undoRegion" ELSE "undo") ELSE ""
           [] OTHER -> ""

\* the button of a command was in the menu on the draft the event arrived on
Present(command) ==
    CASE command \in {"finishRegion", "clearRegion"} -> Editing(prev)
      [] command = "undoRegion" -> Editing(prev) /\ "onUndo" \in callbacks
      [] command = "undo" -> ~Editing(prev) /\ "onUndo" \in callbacks
      [] command = "selectAll" -> ~Editing(prev) /\ "onSelectAll" \in callbacks
      [] command = "selectNone" -> ~Editing(prev) /\ "onSelectNone" \in callbacks
      [] command = "save" -> ~Editing(prev)
      [] command = "delete" -> ~Editing(prev) /\ "onDelete" \in callbacks
      [] command \in {"next", "prev"} ->
            ~Editing(prev) /\ ("onNext" \in callbacks \/ "onPrev" \in callbacks)
      [] OTHER -> FALSE

\* C21: a key event is prevented only when it resolved, by the table, to a command
\* whose button is present and that was not rejected with a toast; an unmapped key,
\* a mapped key with disqualifying modifiers, any event with alt held, a command
\* rejected with a toast and a command whose button is not present leave the event
\* unprevented, dispatch no callback and leave the draft as it was.
C21_PreventOnlyWhenDispatched ==
    ev.kind = "key" =>
        /\ ev.prevented =>
              (TableCommand # "" /\ Present(TableCommand) /\ ev.toast = "")
        /\ (TableCommand = "" \/ ~Present(TableCommand) \/ ev.toast # "") =>
              (~ev.prevented /\ NoCallback /\ draft = prev)

UniqueNames(defs) == \A i, j \in DOMAIN defs : defs[i].name = defs[j].name => i = j

\* C23: from a configuration whose names are unique within each level, after any
\* sequence of successful saveDefinition operations, adds and edits at either
\* level, the names within each level are unique.
C23_NamesStayUnique == \A lvl \in Levels : UniqueNames(config[lvl])

Landed == ev.kind = "clickLands"
WasAttached == ev.arg[1]
SeenByHandler == ev.arg[2]
Finished(d) ==
    [d EXCEPT !.dirty = TRUE,
              !.labels[d.drawing.mode] = <<RegionOf(d)>> \o @,
              !.drawing.active = <<>>]
Cleared(d) == [d EXCEPT !.dirty = TRUE, !.drawing.active = <<>>]

====
